---- MODULE Spec2Model ----
(***************************************************************************)
(* One pea2pea Node: its Connections registry (the handshaking and the     *)
(* handshaken map), its KnownPeers, the accept task, the callers of the    *)
(* public API and the per-connection reader and writer tasks.              *)
(*                                                                         *)
(* src/src/node.rs is modelled statement by statement.  The modules it     *)
(* uses that are not among the sources (connections, connection,           *)
(* known_peers, protocols) are modelled from spec.md; those definitions    *)
(* say so in their comment.                                                *)
(***************************************************************************)
EXTENDS Integers, Sequences, FiniteSets, TLC

\* ------------------------------------------------------------------ bounds
NumAddrs == 1          \* peer addresses
MaxConns == 2          \* sockets the node adapts in one run
NumCallers == 1        \* tasks calling initiate_connection concurrently
MaxCalls == 2          \* calls of the node's API in one run
MaxInbound == 2        \* messages the peers write in one run
MaxFailures == 1       \* failed reads registered for one peer
MaxSocketErrs == 1     \* sockets that fail or reach EOF in one run
OutboundDepth == 2     \* largest outbound_queue_depth a node is configured with
InboundDepth == 1      \* capacity of the incoming_requests channel
NumPorts == 3          \* TCP ports of the host
ReadBufferSize == 2    \* the conn_read_buffer_size the node is configured with
MaxBadFrames == 1      \* undecodable frames the peers write in one run

Addrs == 1..NumAddrs
Conns == 1..MaxConns
Callers == 1..NumCallers
NoConn == 0
Ports == 1..NumPorts
\* desired_listening_port: None; as the port of a bind: any port
NoPort == 0
\* payloads handed to send_direct_message: byte strings
Payloads == {<<7>>, <<8>>}

VARIABLES
    hsEnabled,      \* the Handshaking stage is enabled on this node
    sinkSet,        \* node.incoming_requests holds Some(Some(sender))
    outbound_queue_depth,  \* the configured capacity of an outbound channel
    handshaking,    \* connections.handshaking: Addr -> Connection (NoConn: no entry)
    handshaken,     \* connections.handshaken:  Addr -> Connection
    known_peers,    \* known_peers: Addr -> [known, msgs, failures]
    nextConn,       \* the next socket to be adapted
    connAddr,       \* Connection -> its peer address (0: not yet created)
    reader,         \* Connection -> state of its reader_task
    connState,      \* Connection -> where its life stands (spec.md 3)
    displaced,      \* Connection -> the entry its insert found under its address
    sockIn,         \* Connection -> frames waiting in the socket: <<c, k, size>>
    buf,            \* Connection -> bytes its framing buffer holds
    sockErr,        \* Connection -> the socket reads as error / EOF
    peerSent,       \* Connection -> messages the peer wrote so far
    inboundQ,       \* the incoming_requests channel: <<msg, addr>> waiting
    delivered,      \* log: every (msg, addr) the reader handed to the sink
    processed,      \* log: every (msg, addr) the user's dispatcher received
    on_disconnect,  \* Connection -> times a disconnect handler was called for it
    config,         \* the NodeConfig given to Node::new
    usedPorts,      \* the ports of the host something else listens on
    newPc,          \* Node::new: "start", or how it ended
    local_addr,     \* node.local_addr's port (NoPort: there is no node)
    acceptTask,     \* the listening task is spawned
    userRefs,       \* the Arc<Node> references the user holds
    outq,           \* Connection -> its outbound channel
    cur,            \* Connection -> bytes of the payload the writer is writing
    wire,           \* Connection -> bytes written to the socket
    accepted,       \* log: Connection -> payloads whose send returned Ok
    callPc,         \* Caller -> position in initiate_connection
    callAddr,       \* Caller -> the addr it connects to
    nCalls,         \* calls of the API that have returned
    lastOp          \* the last call of the API that returned, and its result

vars == <<hsEnabled, sinkSet, outbound_queue_depth, handshaking, handshaken, known_peers, nextConn,
          connAddr, reader, connState, displaced,
          sockIn, buf, sockErr, peerSent, inboundQ, delivered, processed, on_disconnect,
          config, usedPorts, newPc, local_addr, acceptTask, userRefs,
          outq, cur, wire, accepted, callPc, callAddr, nCalls, lastOp>>

registryVars == <<handshaking, handshaken>>
connVars == <<nextConn, connAddr, reader, connState, displaced>>
socketVars == <<sockIn, buf, sockErr, peerSent>>
sinkVars == <<inboundQ, delivered, processed>>
writeVars == <<outq, cur, wire, accepted>>
callerVars == <<callPc, callAddr>>
apiVars == <<nCalls, lastOp>>
configVars == <<hsEnabled, sinkSet, outbound_queue_depth>>
hookVars == <<on_disconnect>>
newVars == <<config, usedPorts, newPc, local_addr, acceptTask, userRefs>>

\* ------------------------------------------------- Connections (queries)
\* spec.md section 3: the registry's membership tests
Connections_is_handshaking(addr) == handshaking[addr] # NoConn

Connections_is_handshaken(addr) == handshaken[addr] # NoConn

Connections_is_connected(addr) ==
    Connections_is_handshaking(addr) \/ Connections_is_handshaken(addr)

Connections_num_connected ==
    Cardinality({a \in Addrs : handshaking[a] # NoConn})
    + Cardinality({a \in Addrs : handshaken[a] # NoConn})

\* node.rs 179-193: the public queries delegate to the registry
is_connected(addr) == Connections_is_connected(addr)

num_connected == Connections_num_connected

is_handshaking(addr) == Connections_is_handshaking(addr)

is_handshaken(addr) == Connections_is_handshaken(addr)

\* the connections some map holds
InRegistry(c) ==
    \E a \in Addrs : handshaking[a] = c \/ handshaken[a] = c

\* ------------------------------------------------------------ KnownPeers
\* known_peers.add(addr): creates the entry on first observation, keeps it otherwise
KnownPeers_add(kp, addr) ==
    [kp EXCEPT ![addr].known = TRUE]

\* known_peers.register_failure(addr)
KnownPeers_register_failure(kp, addr) ==
    [kp EXCEPT ![addr].known = TRUE, ![addr].failures = @ + 1]

\* known_peers.register_message(addr, len)
KnownPeers_register_message(kp, addr) ==
    [kp EXCEPT ![addr].known = TRUE, ![addr].msgs = @ + 1]

\* -------------------------------------------------------------- Connection
\* a drop that leaves the reader tasks running
ReaderAfterDrop_running(S) == reader

\* Dropping the Connections in S: the reader task is aborted, both socket
\* halves are closed; the writer task drains its channel and exits.
ReaderAfterDrop(S) ==
    [c \in Conns |-> IF c \in S THEN "aborted" ELSE reader[c]]

StateAfterDrop(S, why) ==
    [c \in Conns |-> IF c \in S THEN why ELSE connState[c]]

\* ------------------------------------------------------------ NodeConfig
\* config.rs 15-25: the default configuration (the options that decide the
\* listener, and the size of a connection's read buffer, which the model
\* scales down to ReadBufferSize)
NodeConfig_default ==
    [desired_listening_port |-> NoPort, allow_random_port |-> TRUE,
     conn_read_buffer_size |-> ReadBufferSize]

\* ------------------------------------------------------------------- Init
\* the state Node::new leaves: empty registries, no sink; in Init the node was
\* made from the default configuration and listens on some port
InitCreated ==
    /\ hsEnabled \in BOOLEAN
    /\ sinkSet = FALSE
    /\ outbound_queue_depth \in 1..OutboundDepth
    /\ handshaking = [a \in Addrs |-> NoConn]
    /\ handshaken = [a \in Addrs |-> NoConn]
    /\ known_peers = [a \in Addrs |-> [known |-> FALSE, msgs |-> 0, failures |-> 0]]
    /\ nextConn = 1
    /\ connAddr = [c \in Conns |-> 0]
    /\ reader = [c \in Conns |-> "none"]
    /\ connState = [c \in Conns |-> "none"]
    /\ displaced = [c \in Conns |-> NoConn]
    /\ sockIn = [c \in Conns |-> <<>>]
    /\ buf = [c \in Conns |-> 0]
    /\ sockErr = [c \in Conns |-> FALSE]
    /\ peerSent = [c \in Conns |-> 0]
    /\ inboundQ = <<>>
    /\ delivered = <<>>
    /\ processed = <<>>
    /\ on_disconnect = [c \in Conns |-> 0]
    /\ outq = [c \in Conns |-> <<>>]
    /\ cur = [c \in Conns |-> <<>>]
    /\ wire = [c \in Conns |-> <<>>]
    /\ accepted = [c \in Conns |-> <<>>]
    /\ callPc = [k \in Callers |-> "idle"]
    /\ callAddr = [k \in Callers |-> 1]
    /\ nCalls = 0
    /\ lastOp = [op |-> "none", addr |-> 1, res |-> "none"]

Init ==
    /\ InitCreated
    /\ config = NodeConfig_default
    /\ usedPorts = {}
    /\ newPc = "ready"
    /\ local_addr = 1
    /\ acceptTask = TRUE
    /\ userRefs = 1

\* --------------------------------------------------------------- Node::new
\* TcpListener::bind: the outcomes of binding port on a host where the ports
\* in used are taken; binding NoPort asks the system for any free port
Bind(port, used) ==
    IF port = NoPort
    THEN IF Ports \ used = {}
         THEN {[ok |-> FALSE, port |-> NoPort]}
         ELSE {[ok |-> TRUE, port |-> q] : q \in Ports \ used}
    ELSE IF port \in used
         THEN {[ok |-> FALSE, port |-> NoPort]}
         ELSE {[ok |-> TRUE, port |-> port]}

\* a Node::new that falls back to any port whatever the configuration says
new_retries_always(allow_random_port) == TRUE

\* node.rs 58: after a failed bind, the configuration decides on the retry
new_retries(allow_random_port) == allow_random_port

\* node.rs 68-95: the node is made, the listening task spawned, Ok(node):
\* the caller holds one Arc<Node>
NewCreated(port) ==
    /\ newPc' = "ready"
    /\ local_addr' = port
    /\ acceptTask' = TRUE
    /\ userRefs' = 1

\* node.rs 61, 64: the bind error is returned before a node is made
NewBindError ==
    /\ newPc' = "bind_error"
    /\ UNCHANGED <<local_addr, acceptTask, userRefs>>

\* node.rs 33-96
Node_new ==
    /\ newPc = "start"
    /\ IF config.desired_listening_port = NoPort /\ ~config.allow_random_port
       THEN \* node.rs 51-53: panic!
            /\ newPc' = "panicked"
            /\ UNCHANGED <<local_addr, acceptTask, userRefs>>
       ELSE \* node.rs 45-50: bind the desired port, or any port
            \E first \in Bind(config.desired_listening_port, usedPorts) :
               IF first.ok
               THEN NewCreated(first.port)
               ELSE IF new_retries(config.allow_random_port)
               THEN \* node.rs 59-61
                    \E second \in Bind(NoPort, usedPorts) :
                       IF second.ok THEN NewCreated(second.port) ELSE NewBindError
               ELSE NewBindError
    /\ UNCHANGED <<configVars, hookVars, registryVars, known_peers, connVars,
                   socketVars, sinkVars, writeVars, callerVars, apiVars,
                   config, usedPorts>>

\* Node::new called with a configuration, on a host with some ports taken
InitNew ==
    /\ InitCreated
    /\ config \in [desired_listening_port : {NoPort} \cup Ports,
                    allow_random_port : BOOLEAN,
                    conn_read_buffer_size : {ReadBufferSize}]
    /\ usedPorts \in SUBSET Ports
    /\ newPc = "start"
    /\ local_addr = NoPort
    /\ acceptTask = FALSE
    /\ userRefs = 0

SpecNew == InitNew /\ [][Node_new]_vars

\* ----------------------------------------------------------- adapt_stream
\* node.rs 103-138: split the stream, spawn the reader task, build the
\* Connection and insert it into connections.handshaking.  HashMap::insert
\* replaces an entry the map already holds for addr; the replaced Connection
\* is dropped.  Nothing here promotes the connection or looks at handshaken.
adapt_stream(addr) ==
    LET c == nextConn
        old == handshaking[addr]
        dropped == IF old = NoConn THEN {} ELSE {old}
    IN  /\ nextConn <= MaxConns
        /\ nextConn' = nextConn + 1
        /\ connAddr' = [connAddr EXCEPT ![c] = addr]
        /\ reader' = [ReaderAfterDrop(dropped) EXCEPT ![c] = "running"]
        /\ connState' = [StateAfterDrop(dropped, "replaced") EXCEPT ![c] = "handshaking"]
        /\ handshaking' = [handshaking EXCEPT ![addr] = c]
        /\ displaced' = [displaced EXCEPT ![c] = old]
        /\ UNCHANGED handshaken

\* node.rs 140-143, called by the accept task (node.rs 78-87) for each
\* accepted (stream, addr)
accept_connection(addr) ==
    /\ acceptTask
    /\ known_peers' = KnownPeers_add(known_peers, addr)
    /\ adapt_stream(addr)
    /\ UNCHANGED <<configVars, hookVars, newVars, socketVars, sinkVars, writeVars, callerVars,
                   apiVars>>

\* the calls of the API made so far: those that returned and those suspended
\* in initiate_connection
CallsMade == nCalls + Cardinality({k \in Callers : callPc[k] = "connecting"})

\* node.rs 146-149: what initiate_connection returns for an address that is
\* connected already: a warning is logged, then Ok(())
initiate_returns_connected == "Ok"

\* an initiate_connection that leaves KnownPeers alone until it is connected
known_peers_before_connect_skipped(kp, addr) == kp

\* node.rs 152-153: known_peers.add(addr) comes before TcpStream::connect
known_peers_before_connect(kp, addr) == KnownPeers_add(kp, addr)

\* node.rs 145-152: the is_connected check; then either the early return, or
\* known_peers.add and the caller suspends in TcpStream::connect
InitiateBegin(k, addr) ==
    /\ userRefs > 0
    /\ callPc[k] = "idle"
    /\ CallsMade < MaxCalls
    /\ IF is_connected(addr)
       THEN /\ nCalls' = nCalls + 1
            /\ lastOp' = [op |-> "initiate", addr |-> addr,
                          res |-> initiate_returns_connected]
            /\ UNCHANGED <<known_peers, callerVars>>
       ELSE /\ known_peers' = known_peers_before_connect(known_peers, addr)
            /\ callPc' = [callPc EXCEPT ![k] = "connecting"]
            /\ callAddr' = [callAddr EXCEPT ![k] = addr]
            /\ UNCHANGED apiVars
    /\ UNCHANGED <<configVars, hookVars, newVars, registryVars, connVars, socketVars, sinkVars,
                   writeVars>>

\* node.rs 153-156: connect returned a stream; adapt_stream; Ok(())
InitiateConnected(k) ==
    /\ callPc[k] = "connecting"
    /\ adapt_stream(callAddr[k])
    /\ callPc' = [callPc EXCEPT ![k] = "idle"]
    /\ callAddr' = [callAddr EXCEPT ![k] = 1]
    /\ nCalls' = nCalls + 1
    /\ lastOp' = [op |-> "initiate", addr |-> callAddr[k], res |-> "Ok"]
    /\ UNCHANGED <<configVars, hookVars, newVars, known_peers, socketVars, sinkVars, writeVars>>

\* node.rs 153: connect failed; the ? returns the error
InitiateConnectFailed(k) ==
    /\ callPc[k] = "connecting"
    /\ callPc' = [callPc EXCEPT ![k] = "idle"]
    /\ callAddr' = [callAddr EXCEPT ![k] = 1]
    /\ nCalls' = nCalls + 1
    /\ lastOp' = [op |-> "initiate", addr |-> callAddr[k], res |-> "ConnectFailed"]
    /\ UNCHANGED <<configVars, hookVars, newVars, registryVars, connVars, known_peers, socketVars,
                   sinkVars, writeVars>>

\* ------------------------------------------------------ Handshaking stage
\* spec.md 4.3, Ok: the closure picked by side returned Ok for a connection
\* the handshaking map holds; the Connection is moved from handshaking to
\* handshaken in one step.  A Connection handshaken already held for the address is
\* replaced, and dropped.
HandshakeOk(c) ==
    LET a == connAddr[c]
        old == handshaken[a]
        dropped == IF old = NoConn THEN {} ELSE {old}
    IN  /\ hsEnabled
        /\ connState[c] = "handshaking"
        /\ handshaking[a] = c
        /\ handshaking' = [handshaking EXCEPT ![a] = NoConn]
        /\ handshaken' = [handshaken EXCEPT ![a] = c]
        /\ connState' = [StateAfterDrop(dropped, "replaced") EXCEPT ![c] = "handshaken"]
        /\ reader' = ReaderAfterDrop(dropped)
        /\ UNCHANGED <<configVars, hookVars, newVars, known_peers, nextConn, connAddr, displaced, socketVars,
                       sinkVars, writeVars, callerVars, apiVars>>

\* spec.md 4.3, Err or timeout: the closure returned Err, or handshake_timeout
\* passed before it returned; the Connection is removed from handshaking,
\* its socket closed, a failure recorded on KnownPeers
HandshakeFailed(c) ==
    LET a == connAddr[c]
    IN  /\ hsEnabled
        /\ connState[c] = "handshaking"
        /\ handshaking[a] = c
        /\ handshaking' = [handshaking EXCEPT ![a] = NoConn]
        /\ connState' = [connState EXCEPT ![c] = "failed"]
        /\ reader' = ReaderAfterDrop({c})
        /\ known_peers' = KnownPeers_register_failure(known_peers, a)
        /\ UNCHANGED <<configVars, hookVars, newVars, handshaken, nextConn, connAddr, displaced, socketVars,
                       sinkVars, writeVars, callerVars, apiVars>>

\* -------------------------------------------------------------- disconnect
\* spec.md 3 and 4.1: Connections::disconnect removes the entry from
\* whichever map holds it
Connections_disconnect_removed(addr) ==
    {handshaking[addr], handshaken[addr]} \ {NoConn}

\* a disconnect that reports success whatever the registry answered
disconnect_returns_always(disconnected) == TRUE

\* node.rs 160-168: the value disconnect returns
disconnect_returns(disconnected) == disconnected

\* a disconnect that forgets the peer
known_peers_after_disconnect_forgetting(kp, addr) ==
    [kp EXCEPT ![addr] = [known |-> FALSE, msgs |-> 0, failures |-> 0]]

\* node.rs 159-169: disconnect does not touch known_peers
known_peers_after_disconnect(kp, addr) == kp

\* node.rs 159-169: the registry's disconnect, a log line, the result.  No
\* handler of the user is called: Node (node.rs 24-30) holds none.
disconnect(addr) ==
    LET removed == Connections_disconnect_removed(addr)
        ret == disconnect_returns(removed # {})
    IN  /\ userRefs > 0
        /\ CallsMade < MaxCalls
        /\ nCalls' = nCalls + 1
        /\ handshaking' = [handshaking EXCEPT ![addr] = NoConn]
        /\ handshaken' = [handshaken EXCEPT ![addr] = NoConn]
        /\ reader' = ReaderAfterDrop(removed)
        /\ connState' = StateAfterDrop(removed, "disconnected")
        /\ lastOp' = [op |-> "disconnect", addr |-> addr,
                      res |-> IF ret THEN "true" ELSE "false"]
        /\ known_peers' = known_peers_after_disconnect(known_peers, addr)
        /\ UNCHANGED <<configVars, hookVars, newVars, nextConn, connAddr, displaced, socketVars,
                       sinkVars, writeVars, callerVars>>

\* ------------------------------------------------------ send_direct_message
\* the user's encoding of a payload (tests/messaging.rs 76-81, write_message:
\* the payload prefixed with its length)
Encode(p) == <<Len(p)>> \o p

\* spec.md 4.2: what Connections::send_direct_message answers for target
Connections_send_result(target) ==
    IF handshaken[target] # NoConn
    THEN IF Len(outq[handshaken[target]]) >= outbound_queue_depth THEN "QueueFull" ELSE "Ok"
    ELSE IF handshaking[target] # NoConn THEN "NotHandshaken" ELSE "NotConnected"

\* spec.md 4.2: an accepted payload is appended to the connection's outbound channel
Connections_enqueue(q, payload) == Append(q, payload)

\* a send that swallows the registry's error
send_returns_swallowed(result) == "Ok"

\* a send that reports a payload the full channel refused as sent
send_returns_dropping(result) == IF result = "QueueFull" THEN "Ok" ELSE result

\* node.rs 171-177: the result of the registry's send is returned as it is
send_returns(result) == result

\* node.rs 171-177
send_direct_message(target, message) ==
    LET inner == Connections_send_result(target)
        c == handshaken[target]
    IN  /\ userRefs > 0
        /\ CallsMade < MaxCalls
        /\ nCalls' = nCalls + 1
        /\ lastOp' = [op |-> "send", addr |-> target, res |-> send_returns(inner)]
        /\ IF inner = "Ok"
           THEN /\ outq' = [outq EXCEPT ![c] = Connections_enqueue(@, message)]
                /\ accepted' = [accepted EXCEPT ![c] = Append(@, message)]
           ELSE UNCHANGED <<outq, accepted>>
        /\ UNCHANGED <<configVars, hookVars, newVars, registryVars, known_peers, connVars, socketVars,
                       sinkVars, cur, wire, callerVars>>

\* ------------------------------------------------------------ writer task
\* a writer that takes the newest payload first
Writer_next_newest(q) == q[Len(q)]

\* spec.md 4.2: which payload of the channel the writer task takes next
Writer_next(q) == Head(q)

\* spec.md 4.2: the channel once the writer task took that payload
Writer_rest(q) == Tail(q)

\* spec.md 4.2: the writer task receives the next payload and encodes it
WriterTake(c) ==
    /\ outq[c] # <<>>
    /\ cur[c] = <<>>
    /\ cur' = [cur EXCEPT ![c] = Encode(Writer_next(outq[c]))]
    /\ outq' = [outq EXCEPT ![c] = Writer_rest(@)]
    /\ UNCHANGED <<configVars, hookVars, newVars, registryVars, known_peers, connVars, socketVars,
                   sinkVars, wire, accepted, callerVars, apiVars>>

\* write_all: the socket takes the encoded payload byte by byte
WriterWrite(c) ==
    /\ cur[c] # <<>>
    /\ wire' = [wire EXCEPT ![c] = Append(@, Head(cur[c]))]
    /\ cur' = [cur EXCEPT ![c] = Tail(@)]
    /\ UNCHANGED <<configVars, hookVars, newVars, registryVars, known_peers, connVars, socketVars,
                   sinkVars, outq, accepted, callerVars, apiVars>>

\* ------------------------------------------------------------------- peer
RECURSIVE SumTo(_, _)
SumTo(f, n) == IF n = 0 THEN 0 ELSE f[n] + SumTo(f, n - 1)

TotalSent == SumTo(peerSent, MaxConns)

\* the bytes of a frame before its payload (the length prefix of Encode)
HeaderLen == Len(Encode(<<>>))

\* spec.md 4.1, 8: the decoder yields a message for a frame that has a
\* payload and fits the read buffer
FrameDecodes(frame) ==
    frame[3] > HeaderLen /\ frame[3] <= config.conn_read_buffer_size

\* the sizes of the frames no decoder accepts: a zero-length payload, and
\* one byte more than the read buffer holds
BadSizes == {HeaderLen, config.conn_read_buffer_size + 1}

\* the remote end writes one more complete message on the socket: the k-th
\* frame written on socket c is the value <<c, k, size>>, here the largest
\* the read buffer holds
PeerSend(c) ==
    /\ reader[c] \in {"running", "sending"}
    /\ ~sockErr[c]
    /\ TotalSent < MaxInbound
    /\ peerSent' = [peerSent EXCEPT ![c] = @ + 1]
    /\ sockIn' = [sockIn EXCEPT ![c] =
                     Append(@, <<c, peerSent[c] + 1, config.conn_read_buffer_size>>)]
    /\ UNCHANGED <<configVars, hookVars, newVars, registryVars, known_peers, connVars, sockErr,
                   buf, sinkVars, writeVars, callerVars, apiVars>>

\* the sockets that hold a frame no decoder accepts
BadSockets ==
    {c \in Conns : \E i \in 1..Len(sockIn[c]) : ~FrameDecodes(sockIn[c][i])}

\* the remote end writes a frame with an empty payload, or an oversized one
PeerSendBad(c, size) ==
    /\ reader[c] \in {"running", "sending"}
    /\ ~sockErr[c]
    /\ TotalSent < MaxInbound
    /\ c \notin BadSockets
    /\ Cardinality(BadSockets) < MaxBadFrames
    /\ peerSent' = [peerSent EXCEPT ![c] = @ + 1]
    /\ sockIn' = [sockIn EXCEPT ![c] = Append(@, <<c, peerSent[c] + 1, size>>)]
    /\ UNCHANGED <<configVars, hookVars, newVars, registryVars, known_peers, connVars, sockErr,
                   buf, sinkVars, writeVars, callerVars, apiVars>>

\* the remote end closes the socket, or the socket fails: once the buffered
\* messages are read, every read ends in EOF or an error
PeerClose(c) ==
    /\ reader[c] \in {"running", "sending"}
    /\ ~sockErr[c]
    /\ Cardinality({d \in Conns : sockErr[d]}) < MaxSocketErrs
    /\ sockErr' = [sockErr EXCEPT ![c] = TRUE]
    /\ UNCHANGED <<configVars, hookVars, newVars, registryVars, known_peers, connVars, sockIn, buf, peerSent,
                   sinkVars, writeVars, callerVars, apiVars>>

\* ------------------------------------------------------------ reader task
\* a reader that does not forward what it read
Deliver_dropping(q, msg, addr) == q

\* node.rs 118-123: the message and its source go to the incoming_requests sink
Deliver(q, msg, addr) == Append(q, <<msg, addr>>)

\* node.rs 112-124: read_message returned Ok(msg): the message is registered
\* on KnownPeers and, with a sink set, sent to it; the send waits while the
\* channel is full
ReaderOk(c) ==
    LET addr == connAddr[c]
        msg == Head(sockIn[c])
    IN  /\ reader[c] = "running"
        /\ sockIn[c] # <<>>
        /\ FrameDecodes(msg)
        /\ buf' = [buf EXCEPT ![c] = 0]
        /\ known_peers' = KnownPeers_register_message(known_peers, addr)
        /\ IF ~sinkSet
           THEN /\ sockIn' = [sockIn EXCEPT ![c] = Tail(@)]
                /\ UNCHANGED <<reader, sinkVars>>
           ELSE IF Len(inboundQ) < InboundDepth
           THEN /\ sockIn' = [sockIn EXCEPT ![c] = Tail(@)]
                /\ inboundQ' = Deliver(inboundQ, msg, addr)
                /\ delivered' = Append(delivered, <<msg, addr>>)
                /\ UNCHANGED <<reader, processed>>
           ELSE /\ reader' = [reader EXCEPT ![c] = "sending"]
                /\ UNCHANGED <<sockIn, sinkVars>>
        /\ UNCHANGED <<configVars, hookVars, newVars, registryVars, nextConn, connAddr, connState, displaced, sockErr,
                       peerSent, writeVars, callerVars, apiVars>>

\* node.rs 119: the waiting send completes once the channel has room
ReaderSent(c) ==
    LET addr == connAddr[c]
        msg == Head(sockIn[c])
    IN  /\ reader[c] = "sending"
        /\ Len(inboundQ) < InboundDepth
        /\ sockIn' = [sockIn EXCEPT ![c] = Tail(@)]
        /\ inboundQ' = Deliver(inboundQ, msg, addr)
        /\ delivered' = Append(delivered, <<msg, addr>>)
        /\ reader' = [reader EXCEPT ![c] = "running"]
        /\ UNCHANGED processed
        /\ UNCHANGED <<configVars, hookVars, newVars, registryVars, known_peers, nextConn, connAddr, connState,
                       displaced, sockErr, buf, peerSent, writeVars, callerVars, apiVars>>

\* node.rs 125-128: the state of the reader task after read_message returned Err:
\* the failure is logged and the loop goes on
reader_after_error(state) == state

\* node.rs 125-128: what the Err branch does to the registry: nothing
registry_after_error(map, c) == map

\* spec.md 4.1: the bytes the framing buffer holds when read_message gives
\* up on a frame: never more than the read buffer's size
buffered_after_error(size) ==
    IF size > config.conn_read_buffer_size
    THEN config.conn_read_buffer_size ELSE size

\* node.rs 125-129: read_message returned Err: a failed socket or EOF, or a
\* frame at the head of the socket that does not decode; the frame is not
\* consumed
ReaderErr(c) ==
    LET addr == connAddr[c]
    IN  /\ reader[c] = "running"
        /\ \/ sockIn[c] = <<>> /\ sockErr[c] /\ UNCHANGED buf
           \/ /\ sockIn[c] # <<>>
              /\ ~FrameDecodes(Head(sockIn[c]))
              /\ buf' = [buf EXCEPT ![c] = buffered_after_error(Head(sockIn[c])[3])]
        /\ known_peers[addr].failures < MaxFailures
        /\ known_peers' = KnownPeers_register_failure(known_peers, addr)
        /\ reader' = [reader EXCEPT ![c] = reader_after_error(@)]
        /\ handshaking' = registry_after_error(handshaking, c)
        /\ handshaken' = registry_after_error(handshaken, c)
        /\ UNCHANGED <<configVars, hookVars, newVars, nextConn, connAddr, connState, displaced, sockIn, sockErr,
                       peerSent, sinkVars, writeVars, callerVars, apiVars>>

\* enabling the reading of messages on the node: node.incoming_requests, a
\* OnceCell left unset by Node::new (node.rs 73), is set to Some(sender)
SetIncomingRequests ==
    /\ userRefs > 0
    /\ ~sinkSet
    /\ sinkSet' = TRUE
    /\ UNCHANGED <<hsEnabled, outbound_queue_depth, hookVars, newVars, registryVars, known_peers,
                   connVars, socketVars, sinkVars, writeVars, callerVars, apiVars>>

\* the user's dispatcher takes the next message from the incoming_requests channel
ProcessMessage ==
    /\ inboundQ # <<>>
    /\ inboundQ' = Tail(inboundQ)
    /\ processed' = Append(processed, Head(inboundQ))
    /\ UNCHANGED <<configVars, hookVars, newVars, registryVars, known_peers, connVars, socketVars,
                   delivered, writeVars, callerVars, apiVars>>

\* ------------------------------------------------------- releasing the Node
\* the reader tasks that have not ended
LiveReaders == {c \in Conns : reader[c] \in {"running", "sending"}}

\* the Connections the registry holds
LiveConnections == {c \in Conns : InRegistry(c)}

\* the strong references to the Node that its own tasks and Connections
\* hold: node_clone, moved into the listening task (node.rs 78-79); for each
\* reader task the Arc::clone(&self) inside its ConnectionReader (node.rs
\* 106) and the one named node (node.rs 108); the one given to each
\* Connection (node.rs 133)
task_refs ==
    (IF acceptTask THEN 1 ELSE 0)
        + Cardinality(LiveReaders) + Cardinality(LiveReaders)
        + Cardinality(LiveConnections)

\* Arc::strong_count of the Node
strong_count == userRefs + task_refs

\* the Node is dropped: its fields are, and with the registry every
\* Connection it holds (spec.md 3: the reader task aborted).  The handle
\* of the listening task was discarded when it was spawned (node.rs 79), so
\* the drop does not reach that task.
Node_drop ==
    /\ newPc' = "dropped"
    /\ handshaking' = [a \in Addrs |-> NoConn]
    /\ handshaken' = [a \in Addrs |-> NoConn]
    /\ reader' = ReaderAfterDrop(LiveConnections)
    /\ connState' = StateAfterDrop(LiveConnections, "dropped")

\* the user lets go of an Arc<Node>; no call of the API is under way, since
\* a call borrows the reference.  The Node is dropped when the count of
\* strong references falls to zero.
Node_release ==
    /\ newPc = "ready"
    /\ userRefs > 0
    /\ \A k \in Callers : callPc[k] = "idle"
    /\ userRefs' = userRefs - 1
    /\ IF strong_count = 1
       THEN Node_drop
       ELSE UNCHANGED <<newPc, handshaking, handshaken, reader, connState>>
    /\ UNCHANGED <<configVars, hookVars, config, usedPorts, local_addr, acceptTask,
                   known_peers, nextConn, connAddr, displaced, socketVars, sinkVars,
                   writeVars, callerVars, apiVars>>

\* the connection lifecycle: the accept task, the callers of
\* initiate_connection and disconnect, the handshakes
NextLifecycle ==
    \/ \E a \in Addrs : accept_connection(a)
    \/ \E k \in Callers, a \in Addrs : InitiateBegin(k, a)
    \/ \E k \in Callers : InitiateConnected(k)
    \/ \E k \in Callers : InitiateConnectFailed(k)
    \/ \E c \in Conns : HandshakeOk(c)
    \/ \E c \in Conns : HandshakeFailed(c)
    \/ \E a \in Addrs : disconnect(a)

\* the callers of send_direct_message and the writer tasks
NextWriting ==
    \/ \E a \in Addrs, p \in Payloads : send_direct_message(a, p)
    \/ \E c \in Conns : WriterTake(c)
    \/ \E c \in Conns : WriterWrite(c)

\* the peers, the reader tasks and the dispatcher behind the sink
NextReading ==
    \/ \E c \in Conns : PeerSend(c)
    \/ \E c \in Conns : PeerClose(c)
    \/ \E c \in Conns : ReaderOk(c)
    \/ \E c \in Conns : ReaderSent(c)
    \/ \E c \in Conns : ReaderErr(c)
    \/ SetIncomingRequests
    \/ ProcessMessage

\* peers that write frames the node's decoder rejects
NextFraming ==
    \E c \in Conns : \E size \in BadSizes : PeerSendBad(c, size)

Next == NextLifecycle \/ NextWriting \/ NextReading \/ NextFraming

Spec == Init /\ [][Next]_vars

\* The node among peers that write nothing and keep their sockets open: the
\* reader tasks stay parked in read_message.  No step of NextReading changes
\* the registry, the outbound channels, the result of a call or any variable
\* a guard of NextLifecycle or NextWriting reads, so these take the same
\* values here as under Spec.  The node is configured with the largest
\* outbound_queue_depth.
InitOutbound == Init /\ outbound_queue_depth = OutboundDepth

SpecOutbound == InitOutbound /\ [][NextLifecycle \/ NextWriting]_vars

\* a node on which nobody calls initiate_connection: every connection comes
\* from the accept task
NextListening ==
    \/ \E a \in Addrs : accept_connection(a)
    \/ \E c \in Conns : HandshakeOk(c)
    \/ \E c \in Conns : HandshakeFailed(c)
    \/ \E a \in Addrs : disconnect(a)

\* peers that close their sockets, and the reads that fail on them
NextFailing ==
    \/ \E c \in Conns : PeerClose(c)
    \/ \E c \in Conns : ReaderErr(c)

\* The node among peers that write nothing but may close their sockets.
SpecFailing == InitOutbound /\ [][NextLifecycle \/ NextFailing]_vars

\* the accept task and the handshakes of the connections it adapts
NextAccepting ==
    \/ \E a \in Addrs : accept_connection(a)
    \/ \E c \in Conns : HandshakeOk(c)
    \/ \E c \in Conns : HandshakeFailed(c)

\* The node left to its tasks, with its peers and the user's dispatcher:
\* nobody calls initiate_connection, disconnect or send_direct_message.
SpecInbound == InitOutbound /\ [][NextAccepting \/ NextReading]_vars

\* the executor runs a writer task that has something to do: a payload
\* waiting in its channel is taken, a byte waiting to be written is written
WriterFairness ==
    \A c \in Conns : WF_vars(WriterTake(c)) /\ WF_vars(WriterWrite(c))

\* The listening node with its writer tasks scheduled fairly.
SpecWriterFair ==
    Init /\ [][NextListening \/ NextWriting]_vars /\ WriterFairness

\* The listening node with its peers, its user and its tasks, the writer
\* tasks scheduled fairly: connections come and go while messages flow both
\* ways.
SpecDisconnect ==
    /\ InitOutbound
    /\ [][NextListening \/ NextWriting \/ NextReading]_vars
    /\ WriterFairness

\* The listening node whose user sends, disconnects and, at some point,
\* lets go of the Node; the writer tasks are scheduled fairly.
NextDropping == Node_release

SpecDrop ==
    /\ InitOutbound
    /\ [][NextListening \/ NextWriting \/ NextDropping]_vars
    /\ WriterFairness

\* ================================================================= claims

\* C1: no peer address is a key of both the handshaking map and the
\* handshaken map, in any state between two operations on the registry.
C1_MapsDisjoint ==
    \A a \in Addrs : ~(handshaking[a] # NoConn /\ handshaken[a] # NoConn)

\* C2: the earlier insert wins: an entry of the handshaking map is never
\* replaced by a connection inserted later for the same address.
C2_EarlierInsertWins ==
    [][\A a \in Addrs :
          (handshaking[a] # NoConn /\ handshaking'[a] # NoConn)
              => handshaking'[a] = handshaking[a]]_vars

\* the entries the registry holds under an address
EntriesAt(hsing, hsken, a) ==
    (IF hsing[a] # NoConn THEN 1 ELSE 0) + (IF hsken[a] # NoConn THEN 1 ELSE 0)

\* a step in which the handshake of c fails or times out
HandshakeFailureStep(c) ==
    connState[c] = "handshaking" /\ connState'[c] = "failed"

\* C3: when the handshake of a connection fails or times out, the connection
\* leaves the handshaking map without entering the handshaken map, a failure
\* is recorded on KnownPeers, and the registry holds for the address what it
\* held before the attempt (num_connected is back at its earlier value).
C3_FailedHandshakeLeavesNoTrace ==
    [][\A c \in Conns :
          HandshakeFailureStep(c) =>
              LET a == connAddr[c]
              IN  /\ handshaking'[a] # c
                  /\ handshaken'[a] # c
                  /\ known_peers'[a].failures = known_peers[a].failures + 1
                  /\ EntriesAt(handshaking', handshaken', a)
                       = EntriesAt(handshaking, handshaken, a) - 1
                  /\ (IF handshaking'[a] # NoConn THEN 1 ELSE 0)
                       = (IF displaced[c] # NoConn THEN 1 ELSE 0)]_vars

\* a step in which adapt_stream creates connection c
AdaptStep(c) ==
    connState[c] = "none" /\ connState'[c] # "none"

\* C4: a connection whose handshake closure returns Ok is moved to the
\* handshaken map, and a connection adapted on a node without handshaking is
\* in the handshaken map (and not in the handshaking map) as soon as
\* adapt_stream returns.
C4_Promoted ==
    [][\A c \in Conns :
          /\ (connState[c] = "handshaking" /\ connState'[c] = "handshaken")
                => (handshaken'[connAddr[c]] = c /\ handshaking'[connAddr[c]] # c)
          /\ (AdaptStep(c) /\ ~hsEnabled)
                => (handshaken'[connAddr'[c]] = c /\ handshaking'[connAddr'[c]] # c)]_vars

\* C5: whenever the reader task hands a message to the incoming_requests
\* sink, the address it came from is a key of the handshaken map.
C5_DeliveredOnlyHandshaken ==
    [][delivered' # delivered
          => handshaken[delivered'[Len(delivered')][2]] # NoConn]_vars

\* C6: when read_message fails on a connection (socket error, EOF), a
\* failure is registered, the connection is in neither map afterwards and
\* its reader task no longer runs.
C6_ReadErrorCloses ==
    [][\A c \in Conns :
          ReaderErr(c) =>
              /\ known_peers'[connAddr[c]].failures
                   = known_peers[connAddr[c]].failures + 1
              /\ handshaking'[connAddr[c]] # c
              /\ handshaken'[connAddr[c]] # c
              /\ reader'[c] # "running"]_vars

\* a step in which disconnect(a) is called and returns
DisconnectStep(a) ==
    nCalls' = nCalls + 1 /\ lastOp'.op = "disconnect" /\ lastOp'.addr = a

\* C7: disconnect(addr) returns true exactly when a map held an entry for
\* addr, which it removed; afterwards is_connected(addr) is false, so a
\* second disconnect of the address, with no insert in between, returns false.
C7_DisconnectResult ==
    [][\A a \in Addrs :
          DisconnectStep(a) =>
              /\ (lastOp'.res = "true") <=> is_connected(a)
              /\ lastOp'.res \in {"true", "false"}
              /\ ~is_connected(a)'
              /\ (lastOp.op = "disconnect" /\ lastOp.addr = a /\ ~is_connected(a))
                    => lastOp'.res = "false"]_vars

\* disconnect(1) returned true and, called again, false: one connection was
\* ever made, it was disconnected, and the last call returned false
C7_Witness ==
    /\ nCalls = 2
    /\ nextConn = 2
    /\ connAddr[1] = 1
    /\ connState[1] = "disconnected"
    /\ lastOp = [op |-> "disconnect", addr |-> 1, res |-> "false"]
    /\ ~is_connected(1)

\* a step in which send_direct_message(a, _) is called and returns
SendStep(a) ==
    nCalls' = nCalls + 1 /\ lastOp'.op = "send" /\ lastOp'.addr = a

\* C9: send_direct_message answers NotConnected for a target in neither map
\* and NotHandshaken for a target only in the handshaking map; it answers Ok
\* only for a target in the handshaken map; a send that fails leaves every
\* outbound channel as it was.
C9_SendErrors ==
    [][\A a \in Addrs :
          SendStep(a) =>
              /\ ~is_connected(a) => lastOp'.res = "NotConnected"
              /\ (is_handshaking(a) /\ ~is_handshaken(a)) => lastOp'.res = "NotHandshaken"
              /\ lastOp'.res = "Ok" => is_handshaken(a)
              /\ lastOp'.res # "Ok" => outq' = outq
              /\ lastOp'.res = "Ok" => outq' # outq]_vars

\* each outcome happened: the last send was refused with NotHandshaken for
\* an address only the handshaking map holds ...
C9_Witness ==
    /\ lastOp = [op |-> "send", addr |-> 1, res |-> "NotHandshaken"]
    /\ is_handshaking(1) /\ ~is_handshaken(1)
    /\ \A c \in Conns : outq[c] = <<>> /\ accepted[c] = <<>>

\* the bytes of a sequence of payloads, each encoded, one after the other
RECURSIVE Frames(_)
Frames(q) == IF q = <<>> THEN <<>> ELSE Encode(Head(q)) \o Frames(Tail(q))

IsOpen(c) == connAddr[c] # 0 /\ handshaken[connAddr[c]] = c

\* the first n payloads accepted for connection c are on its socket in full
WrittenUpTo(c, n) ==
    /\ Len(accepted[c]) >= n
    /\ Len(wire[c]) >= Len(Frames(SubSeq(accepted[c], 1, n)))

UserView == processed \o inboundQ

\* the part of it that came over connection c
FromConn(c) == SelectSeq(UserView, LAMBDA e : e[1][1] = c)

\* a step in which the reader task of c takes a message off its socket
ReadStep(c) == Len(sockIn'[c]) < Len(sockIn[c])

ClosedAfterHandshake(c) ==
    connState[c] = "handshaken" /\ connState'[c] # "handshaken"

\* C13: the disconnect handler is called once for a connection that was in
\* the handshaken map, when it is closed: by then the connection is out of
\* the registry and its reader task aborted; it is never called for a
\* connection whose handshake failed or that is still open, and never a
\* second time.
C13_DisconnectHookOnce ==
    [][\A c \in Conns :
          /\ on_disconnect'[c] \in {on_disconnect[c], 1}
          /\ on_disconnect'[c] = 1 =>
                 /\ connState'[c] \in {"disconnected", "replaced"}
                 /\ ~InRegistry(c)'
                 /\ reader'[c] = "aborted"
          /\ connState'[c] = "failed" => on_disconnect'[c] = 0
          /\ ClosedAfterHandshake(c) => on_disconnect'[c] = 1]_vars

\* a step in which address a is observed: a stream of a is adapted, or a
\* caller of initiate_connection(a) goes on to connect
ObservedStep(a) ==
    \/ \E c \in Conns : AdaptStep(c) /\ connAddr'[c] = a
    \/ \E k \in Callers :
          callPc[k] = "idle" /\ callPc'[k] = "connecting" /\ callAddr'[k] = a

\* C14: an address is in KnownPeers from the step that first observes it
\* (accept_connection, initiate_connection); an entry is never removed and
\* its counters never go down, whatever is disconnected or fails; observing
\* a known address again leaves its entry as it is.
C14_KnownPeersKept ==
    [][\A a \in Addrs :
          /\ ObservedStep(a) => known_peers'[a].known
          /\ known_peers[a].known =>
                 /\ known_peers'[a].known
                 /\ known_peers'[a].msgs >= known_peers[a].msgs
                 /\ known_peers'[a].failures >= known_peers[a].failures
          /\ (ObservedStep(a) /\ known_peers[a].known) =>
                 known_peers'[a] = known_peers[a]]_vars

\* address 1 was observed twice, a handshake or a read of it failed, and it
\* was disconnected: it is known, with its failure counted
C14_Witness ==
    /\ nextConn = 3
    /\ connAddr[1] = 1 /\ connAddr[2] = 1
    /\ lastOp = [op |-> "disconnect", addr |-> 1, res |-> "true"]
    /\ ~is_connected(1)
    /\ known_peers[1].known
    /\ known_peers[1].failures = 1

\* Node::new has returned (or panicked)
NewEnded == newPc # "start"

\* the desired port is set and taken
DesiredTaken ==
    config.desired_listening_port # NoPort
    /\ config.desired_listening_port \in usedPorts

\* no node was made and no listening task spawned
NoNode == local_addr = NoPort /\ ~acceptTask

\* C15: Node::new with a desired port that cannot be bound and
\* allow_random_port retries on any port and succeeds with a non-zero local
\* port; with a desired port that cannot be bound and no allow_random_port it
\* returns the bind error; with no desired port and no allow_random_port it
\* returns a ConfigError; whenever it fails there is no node and no
\* listening task.
C15_ListenerDecision ==
    NewEnded =>
        /\ (DesiredTaken /\ config.allow_random_port)
              => (newPc = "ready" /\ local_addr # NoPort)
        /\ (DesiredTaken /\ ~config.allow_random_port)
              => newPc = "bind_error"
        /\ (config.desired_listening_port = NoPort /\ ~config.allow_random_port)
              => newPc = "config_error"
        /\ newPc # "ready" => NoNode

\* C15 as the code has it: the retry on any port succeeds with a non-zero
\* local port when the host has a port free and returns the error of that
\* bind when it has none; no desired port and no allow_random_port is a
\* panic, not an error returned; the rest as claimed.
C15_ListenerDecisionAmended ==
    NewEnded =>
        /\ (DesiredTaken /\ config.allow_random_port)
              => IF Ports \ usedPorts # {}
                 THEN newPc = "ready" /\ local_addr \in Ports \ usedPorts
                 ELSE newPc = "bind_error"
        /\ (DesiredTaken /\ ~config.allow_random_port)
              => newPc = "bind_error"
        /\ (config.desired_listening_port = NoPort /\ ~config.allow_random_port)
              => newPc = "panicked"
        /\ newPc # "ready" => NoNode
        /\ newPc = "ready" => (local_addr # NoPort /\ acceptTask)

\* the desired port was taken and the node listens on another one
C15_Witness ==
    /\ NewEnded
    /\ DesiredTaken
    /\ config.allow_random_port
    /\ newPc = "ready"
    /\ local_addr # config.desired_listening_port
    /\ local_addr \in Ports

\* a step in which initiate_connection(a) returns at once, without suspending
\* in connect
InitiateEarlyReturn(a) ==
    /\ nCalls' = nCalls + 1
    /\ lastOp'.op = "initiate" /\ lastOp'.addr = a
    /\ callPc' = callPc

\* a step in which a call of initiate_connection(a) is made
InitiateCallStep(a) ==
    \/ InitiateEarlyReturn(a)
    \/ \E k \in Callers :
          callPc[k] = "idle" /\ callPc'[k] = "connecting" /\ callAddr'[k] = a

\* C16: initiate_connection(addr), called while addr is in the handshaking
\* or the handshaken map, returns AlreadyConnected at once: no TCP connection
\* is opened, no reader task spawned, and the registry is as it was.
C16_AlreadyConnected ==
    [][\A a \in Addrs :
          (InitiateCallStep(a) /\ is_connected(a)) =>
              /\ InitiateEarlyReturn(a)
              /\ lastOp'.res = "AlreadyConnected"
              /\ UNCHANGED <<handshaking, handshaken, nextConn, connAddr, reader>>]_vars

\* the frame the reader task of c finds next on its socket is larger than
\* the read buffer
OversizedHead(c) ==
    sockIn[c] # <<>> /\ Head(sockIn[c])[3] > config.conn_read_buffer_size

\* the connection is out of the registry and its reader task has stopped
ClosedNext(c) ==
    /\ handshaking'[connAddr[c]] # c
    /\ handshaken'[connAddr[c]] # c
    /\ reader'[c] # "running"

\* C17: with conn_read_buffer_size = L, the reader task takes a frame of at
\* most L bytes off the socket and, with the sink set, hands its message to
\* the user; when it meets a frame of more than L bytes, the connection is
\* closed: it leaves the registry, its reader task stops and num_connected
\* drops by one; the framing buffer never holds more than L bytes.
C17_OversizedCloses ==
    /\ [](\A c \in Conns : buf[c] <= config.conn_read_buffer_size)
    /\ [][\A c \in Conns :
            /\ (sockIn[c] # <<>> /\ FrameDecodes(Head(sockIn[c])))
                  => ~ReaderErr(c)
            /\ (ReadStep(c) /\ sinkSet) =>
                  /\ Head(sockIn[c])[3] <= config.conn_read_buffer_size
                  /\ UserView' = Append(UserView, <<Head(sockIn[c]), connAddr[c]>>)
            /\ (ReaderErr(c) /\ OversizedHead(c)) =>
                  /\ ClosedNext(c)
                  /\ InRegistry(c) => num_connected' = num_connected - 1]_vars

\* the frame the reader task of c finds next on its socket has no payload:
\* the decoder returns Err for it
InvalidHead(c) ==
    sockIn[c] # <<>> /\ Head(sockIn[c])[3] <= HeaderLen

\* C18: when the decoder returns Err for a frame (a zero-length payload),
\* the connection is closed: the peer leaves the registry and the reader
\* task stops; no message from that frame reaches the user.
C18_DecodeErrorCloses ==
    /\ [](\A i \in 1..Len(UserView) : UserView[i][1][3] > HeaderLen)
    /\ [][\A c \in Conns :
            (ReaderErr(c) /\ InvalidHead(c)) =>
                /\ UserView' = UserView
                /\ ClosedNext(c)]_vars

\* connection c was removed by a disconnect that returned true
Disconnected(c) == connState[c] = "disconnected"

\* every payload accepted for connection c is on its socket in full
WrittenAll(c) == Len(wire[c]) >= Len(Frames(accepted[c]))

ConnectionError(c) == ReaderErr(c) \/ HandshakeFailed(c)

\* the step leaves everything of connection c as it was: the entries that
\* hold it, its tasks, its outbound channel and the payload being written
Untouched(c) ==
    /\ \A a \in Addrs : /\ handshaking'[a] = c <=> handshaking[a] = c
                        /\ handshaken'[a] = c <=> handshaken[a] = c
    /\ reader'[c] = reader[c]
    /\ connState'[c] = connState[c]
    /\ outq'[c] = outq[c]
    /\ cur'[c] = cur[c]
    /\ wire'[c] = wire[c]

\* C20: an error on one connection (a read error, a decode error, an
\* oversized message, a failed handshake) closes that connection and nothing
\* else: the connection leaves the registry and its reader task stops; of
\* every other connection the registry entries, the tasks and the queued
\* outbound payloads are as before, as are the entries of every other
\* address; the accept task goes on running.
C20_ErrorClosesOnlyThat ==
    [][\A c \in Conns :
          ConnectionError(c) =>
              /\ ClosedNext(c)
              /\ \A c2 \in Conns \ {c} : Untouched(c2)
              /\ \A a \in Addrs \ {connAddr[c]} :
                     /\ handshaking'[a] = handshaking[a]
                     /\ handshaken'[a] = handshaken[a]
              /\ acceptTask /\ acceptTask']_vars

\* a step in which caller k of initiate_connection goes on to connect
ConnectStep(k) == callPc[k] = "idle" /\ callPc'[k] = "connecting"

\* C22: initiate_connection(addr) for an address that is not connected adds
\* addr to KnownPeers before it connects, and the entry is there for as long
\* as the caller waits in connect; when the connect fails the call returns
\* the connect error; neither step changes the handshaking or the handshaken
\* map or spawns a reader task, and the entry of addr is still there when
\* the call has failed.
C22_ConnectFailed ==
    /\ [](\A k \in Callers :
            callPc[k] = "connecting" => known_peers[callAddr[k]].known)
    /\ [][\A k \in Callers :
            /\ ConnectStep(k) =>
                  /\ ~is_connected(callAddr'[k])
                  /\ known_peers'[callAddr'[k]].known
                  /\ UNCHANGED <<handshaking, handshaken, nextConn, connAddr, reader>>
            /\ InitiateConnectFailed(k) =>
                  /\ lastOp' = [op |-> "initiate", addr |-> callAddr[k],
                                res |-> "ConnectFailed"]
                  /\ known_peers'[callAddr[k]].known
                  /\ UNCHANGED <<handshaking, handshaken, nextConn, connAddr, reader>>]_vars

\* the only call made was an initiate_connection(1) whose connect failed:
\* address 1 is known, and no connection was ever made
C22_Witness ==
    /\ lastOp = [op |-> "initiate", addr |-> 1, res |-> "ConnectFailed"]
    /\ nCalls = 1
    /\ known_peers[1].known
    /\ ~is_connected(1)
    /\ nextConn = 1
    /\ \A c \in Conns : reader[c] = "none"

\* the user holds no reference to the Node it was given
Released == userRefs = 0 /\ newPc \in {"ready", "dropped"}

\* C21: when the user has released its last reference to the Node, the Node
\* is dropped: no strong reference is left (the tasks hold none that counts),
\* the accept task is aborted and accepts no further connection; from some
\* point on no reader task is alive and every writer task has emptied its
\* channel and finished its write.
C21_DropShutsDown ==
    /\ [](Released => strong_count = 0 /\ newPc = "dropped" /\ ~acceptTask)
    /\ [][Released => nextConn' = nextConn]_vars
    /\ <>[](Released =>
              /\ LiveReaders = {}
              /\ \A c \in Conns : outq[c] = <<>> /\ cur[c] = <<>>)
====
